---- MODULE Spec2Model ----
(***************************************************************************)
(* gdep: a git-driven deployment supervisor.                               *)
(*                                                                         *)
(* The model follows src/src/main.rs: main calls run, run resolves the     *)
(* repository, the configuration and the branch and calls execute.  Each   *)
(* call of execute (a "run", one frame of the recursion) spawns one child  *)
(* process and one updater thread (update_sync), which report to the       *)
(* supervisor over an mpsc channel and share one stop flag.                *)
(*                                                                         *)
(* What outlives a frame of execute is kept per frame, in sequences        *)
(* indexed by the recursion depth: the child process, the updater thread,  *)
(* the stop flag and the err the frame returns.  The other locals of a     *)
(* frame (do_rerun, result, stop, the channel) are not read again once the *)
(* frame has called execute at main.rs:277; they and the record of what    *)
(* the updater did are kept for the newest frame only and start afresh at  *)
(* each call.                                                              *)
(*                                                                         *)
(* Spec is execute called with any Config; SpecRun is run, with execute    *)
(* as one step that returns any of the values execute can return.          *)
(***************************************************************************)
EXTENDS Integers, Sequences, FiniteSets, TLC

\* Bounds of the model.
MaxRuns == 2        \* frames of execute (the recursion at main.rs:277 is unbounded)
MaxPolls == 2       \* iterations of the updater loops, over all the runs
MaxCount == 1       \* largest ahead / behind count graph_ahead_behind reports

VARIABLES
    pc,             \* position of the main thread (run, execute)
    frame,          \* the frame of execute the main thread is in (0: none)
    branch_arg,     \* matches.get_one("branch"): "none" or the override
    cfg,            \* the Config handed to execute
    branch,         \* the branch name handed to execute
    infer_calls,    \* number of calls of get_default_branch
    run_result,     \* what run returned: NotReturned, Ok or the GdepError
    load_err,       \* the ConfigError load_cfg returned, "none" if it returned none
    exit_code,      \* the exit code of the process, -1 while it runs
    ahead_behind,   \* update_sync: the counts graph_ahead_behind returned last
    urs,            \* update_sync: the classification the match is looking at
    \* per frame k of execute
    err,            \* err[k]: local err (the last received outcome)
    ret,            \* ret[k]: the value the frame returned
    stop_flag,      \* stop_flag[k]: the Arc<Mutex<bool>> of the frame
    child,          \* child[k]: none, running, zombie (ended, not waited for), reaped
    upc,            \* upc[k]: position of the frame's updater thread
    joined,         \* joined[k]: update_handle.join() has returned
    \* of the newest frame
    do_rerun,       \* local do_rerun
    result,         \* local result: Option<ExitStatus>
    stop,           \* local stop (the last received flag)
    chan,           \* events sent on the channel and not yet received
    exit_status,    \* how the child ended: none, zero, nonzero, signal
    uerr,           \* local err of update_sync
    sent,           \* every event the updater has sent
    polls,          \* calls of repo_update_cycle that have returned
    polls_before,   \* the same, summed over the runs before the newest one
    cause,          \* the path on which the updater left its loop
    at_recv         \* exit_status when the supervisor last received an event

vars == <<pc, frame, branch_arg, cfg, branch, infer_calls, run_result,
          load_err, exit_code, ahead_behind, urs, polls_before,
          err, ret, stop_flag, child, upc, joined,
          do_rerun, result, stop, chan, exit_status, uerr, sent, polls, cause,
          at_recv>>

runVars == <<branch_arg, cfg, branch, infer_calls, run_result, load_err,
            exit_code>>
frameVars == <<err, ret, stop_flag, child, upc, joined>>
localVars == <<do_rerun, result, stop>>
histVars == <<sent, polls, cause, at_recv>>
cycleVars == <<ahead_behind, urs>>
execVars == <<frameVars, localVars, histVars, cycleVars, chan, exit_status,
              uerr, polls_before>>

----------------------------------------------------------------------------
\* Values

\* GdepError (errors.rs) and the None of Option<GdepError>
MkErr(kind, msg, a, b) == [kind |-> kind, msg |-> msg, a |-> a, b |-> b]
None == MkErr("None", "", 0, 0)
\* Not values of the program: a call that has not returned, and run's Ok(())
NotReturned == MkErr("NotReturned", "", 0, 0)
RunOk == MkErr("Ok", "", 0, 0)
LocalRepoNotFound == MkErr("LocalRepoNotFound", "path", 0, 0)
RemoteRepoNotFound == MkErr("RemoteRepoNotFound", "url", 0, 0)
BranchInferFailed == MkErr("BranchInferFailed", "", 0, 0)
GitError(msg) == MkErr("GitError", msg, 0, 0)
UpdateErrorRepoAhead(a) == MkErr("UpdateErrorRepoAhead", "", a, 0)
UpdateErrorAheadBehind(a, b) == MkErr("UpdateErrorAheadBehind", "", a, b)
UpdateFailed(msg) == MkErr("UpdateFailed", msg, 0, 0)

\* From<ConfigError> for GdepError: the ConfigError is kept as the payload
ConfigLoadError(ce) == MkErr("ConfigLoadError", ce, 0, 0)

\* From<git2::Error> for GdepError
FromGitError(msg) == GitError(msg)

\* ConfigError (config.rs), a kind with its payload
ConfigErrors == {"ConfigFileNotFound", "ScriptFileNotFound",
                 "ParsingFailed(msg)", "MissingContent(name)",
                 "MissingContent(script)", "MissingContent(repo)"}

\* UpdateRelationState
Up2Date == [tag |-> "Up2Date", a |-> 0, b |-> 0]
Ahead(a) == [tag |-> "Ahead", a |-> a, b |-> 0]
Behind(b) == [tag |-> "Behind", a |-> 0, b |-> b]
AheadBehind(a, b) == [tag |-> "AheadBehind", a |-> a, b |-> b]

\* No classification: repo_update_cycle returned Err, or was not called yet
NoUrs == [tag |-> "none", a |-> 0, b |-> 0]

\* An event on the channel: (Option<GdepError>, bool)
Event(e, flag) == [err |-> e, stop |-> flag]

Counts == 0..MaxCount

\* The YAML keys Config::load_from_file turns into the policy booleans
Docs == [final : BOOLEAN, restart_update : BOOLEAN,
         gdep_err_ignore : BOOLEAN, script_err_ignore : BOOLEAN]

NoConfig == [re_run |-> FALSE, restart_after_update |-> FALSE,
             exit_on_script_error |-> FALSE, exit_on_gdep_error |-> FALSE]

\* Config::load_from_file, the Ok(Self {..}) it builds from the document
LoadFromFile(doc) ==
    [re_run |-> ~doc.final,
     restart_after_update |-> doc.restart_update,
     exit_on_script_error |-> ~doc.script_err_ignore,
     exit_on_gdep_error |-> ~doc.gdep_err_ignore]

----------------------------------------------------------------------------
\* Pure functions

\* str::ends_with("/" + last) on a branch name given as its '/'-separated parts
EndsWithSlash(name, last) == Len(name) >= 2 /\ name[Len(name)] = last

\* name.split('/').last()
SplitLast(name) == name[Len(name)]

\* get_default_branch: the loop over the remote branches, first match wins
RECURSIVE FindBranch(_, _)
FindBranch(names, i) ==
    IF i > Len(names) THEN "none"
    ELSE IF EndsWithSlash(names[i], "main") \/ EndsWithSlash(names[i], "master")
         THEN SplitLast(names[i])
         ELSE FindBranch(names, i + 1)

GetDefaultBranch(names) ==
    IF FindBranch(names, 1) = "none"
    THEN [ok |-> FALSE, name |-> "none", err |-> BranchInferFailed]
    ELSE [ok |-> TRUE, name |-> FindBranch(names, 1), err |-> None]

\* The remote-tracking branch names a repository may have
BranchNames == {<<"origin", "main">>, <<"origin", "master">>,
                <<"origin", "dev">>, <<"main">>}
BranchLists == {<<>>} \cup {<<n>> : n \in BranchNames}
               \cup {<<n, m>> : n \in BranchNames, m \in BranchNames}

\* Mutant: the arm (ahead, 0) is tried first and takes (0, 0) as well
ClassifyAheadFirst(ahead, behind) ==
    IF behind = 0 THEN Ahead(ahead)
    ELSE IF ahead = 0 THEN Behind(behind)
    ELSE AheadBehind(ahead, behind)

\* repo_update_cycle: the match on the (ahead, behind) pair
Classify(ahead, behind) ==
    IF ahead = 0 /\ behind = 0 THEN Up2Date
    ELSE IF behind = 0 THEN Ahead(ahead)
    ELSE IF ahead = 0 THEN Behind(behind)
    ELSE AheadBehind(ahead, behind)

\* ExitStatus::success
Success(status) == status = "zero"

----------------------------------------------------------------------------
\* The state in which run (main.rs:320) starts
InitRun ==
    /\ pc = "run"
    /\ frame = 0
    /\ branch_arg \in {"none", "dev"}
    /\ cfg = NoConfig
    /\ branch = "none"
    /\ infer_calls = 0
    /\ run_result = NotReturned
    /\ load_err = "none"
    /\ exit_code = -1
    /\ polls_before = 0
    /\ ahead_behind = <<>>
    /\ urs = NoUrs
    /\ err = <<>>
    /\ ret = <<>>
    /\ stop_flag = <<>>
    /\ child = <<>>
    /\ upc = <<>>
    /\ joined = <<>>
    /\ do_rerun = FALSE
    /\ result = "none"
    /\ stop = FALSE
    /\ chan = <<>>
    /\ exit_status = "none"
    /\ uerr = None
    /\ sent = <<>>
    /\ polls = 0
    /\ cause = "none"
    /\ at_recv = "none"

----------------------------------------------------------------------------
\* run (main.rs:320-348)

\* run returns Err(e): main prints it and the process ends
RunFails(e) ==
    /\ pc' = "exit"
    /\ run_result' = e

\* conv_err! (main.rs:25-29): or_else(|_| Err($err)), the error of $pre is dropped
ConvErr(pre_err, e) == e

\* main.rs:328-336: the repository and the configuration
R_Resolve ==
    /\ pc = "run"
    /\ \E config_in_repo \in BOOLEAN :
         IF config_in_repo
         THEN \* get_repo(..)? then load_cfg(..)? through From<ConfigError>
              \/ \E e \in {LocalRepoNotFound, RemoteRepoNotFound} :
                   RunFails(e) /\ UNCHANGED <<cfg, load_err>>
              \/ \E ce \in ConfigErrors :
                   /\ load_err' = ce
                   /\ RunFails(ConfigLoadError(ce))
                   /\ UNCHANGED cfg
              \/ \E doc \in Docs :
                   /\ cfg' = LoadFromFile(doc)
                   /\ pc' = "branch"
                   /\ UNCHANGED <<run_result, load_err>>
         ELSE \* conv_err!(load_cfg(..), Error::from_str(..))? then get_repo_config(..)?
              \/ \E ce \in ConfigErrors :
                   /\ load_err' = ce
                   /\ RunFails(ConvErr(ce, FromGitError("Could not load config 2")))
                   /\ UNCHANGED cfg
              \/ \E e \in {LocalRepoNotFound, RemoteRepoNotFound} :
                   RunFails(e) /\ UNCHANGED <<cfg, load_err>>
              \/ \E doc \in Docs :
                   /\ cfg' = LoadFromFile(doc)
                   /\ pc' = "branch"
                   /\ UNCHANGED <<run_result, load_err>>
    /\ UNCHANGED <<frame, branch_arg, branch, infer_calls, exit_code, execVars>>

\* main.rs:338: Option::or takes its argument by value, so
\* get_default_branch(&repo)? is evaluated before the override is looked at
R_Branch ==
    /\ pc = "branch"
    /\ infer_calls' = infer_calls + 1
    /\ \/ \* repo.branches(..)?, branch?, branch.name()? fail
          /\ RunFails(FromGitError("branches"))
          /\ UNCHANGED branch
       \/ \E names \in BranchLists :
            LET inferred == GetDefaultBranch(names) IN
            IF ~inferred.ok
            THEN RunFails(inferred.err) /\ UNCHANGED branch
            ELSE /\ branch' = IF branch_arg # "none" THEN branch_arg
                              ELSE inferred.name
                 /\ pc' = "execute"
                 /\ UNCHANGED run_result
    /\ UNCHANGED <<frame, branch_arg, cfg, load_err, exit_code, execVars>>

\* The values a call of execute can return (main.rs:280): None, or the error of
\* a terminal event of update_sync
ExecuteResults ==
    {None, FromGitError("cycle"), UpdateFailed("update")}
    \cup {UpdateErrorRepoAhead(a) : a \in Counts \ {0}}
    \cup {UpdateErrorAheadBehind(a, b) : a \in Counts \ {0}, b \in Counts \ {0}}

\* main.rs:340: the call of execute seen from run, as one step
R_Execute ==
    /\ pc = "execute"
    /\ \E e \in ExecuteResults : ret' = <<e>>
    /\ pc' = "run_ret"
    /\ UNCHANGED <<frame, runVars, polls_before, cycleVars,
                   err, stop_flag, child, upc, joined,
                   localVars, histVars, chan, exit_status, uerr>>

\* main.rs:340-347: run maps execute's value to its own result
R_Return ==
    /\ pc = "run_ret"
    /\ run_result' = IF ret[1] = None THEN RunOk ELSE ret[1]
    /\ pc' = "exit"
    /\ UNCHANGED <<frame, branch_arg, cfg, branch, infer_calls, load_err,
                   exit_code, execVars>>

\* main returns () whatever run returned: the process ends with exit code 0
MainExitCode(res) == 0

\* main.rs:403-407: the error, if any, is printed; then main returns
M_Exit ==
    /\ pc = "exit"
    /\ exit_code' = MainExitCode(run_result)
    /\ pc' = "exited"
    /\ UNCHANGED <<frame, branch_arg, cfg, branch, infer_calls, run_result,
                   load_err, execVars>>

----------------------------------------------------------------------------
\* execute (main.rs:217-281), the supervisor; frame is the frame the main
\* thread is in, and the newest one while it has not returned

\* The state in which run calls execute (main.rs:340), for any Config
InitExecute ==
    /\ pc = "execute"
    /\ frame = 0
    /\ branch_arg = "none"
    /\ cfg \in {LoadFromFile(doc) : doc \in Docs}
    /\ branch = "main"
    /\ infer_calls = 1
    /\ run_result = NotReturned
    /\ load_err = "none"
    /\ exit_code = -1
    /\ polls_before = 0
    /\ ahead_behind = <<>>
    /\ urs = NoUrs
    /\ err = <<>>
    /\ ret = <<>>
    /\ stop_flag = <<>>
    /\ child = <<>>
    /\ upc = <<>>
    /\ joined = <<>>
    /\ do_rerun = FALSE
    /\ result = "none"
    /\ stop = FALSE
    /\ chan = <<>>
    /\ exit_status = "none"
    /\ uerr = None
    /\ sent = <<>>
    /\ polls = 0
    /\ cause = "none"
    /\ at_recv = "none"

Set(f, k, v) == [f EXCEPT ![k] = v]

\* Mutant: do_rerun starts true whatever the Config says
InitialRerunAlways(config) == TRUE

\* main.rs:218: let mut do_rerun = config.re_run
InitialRerun(config) == config.re_run

\* main.rs:258-263: the script's exit status in the restart decision
AfterScript(rerun, res, config) ==
    IF res # "none" /\ ~Success(res)
    THEN rerun /\ ~config.exit_on_script_error
    ELSE rerun

\* main.rs:265-268: the updater's outcome in the restart decision
AfterGdep(rerun, e, config) ==
    IF e # None THEN rerun /\ ~config.exit_on_gdep_error ELSE rerun

\* main.rs:275: if do_rerun (no other field of the Config is consulted)
Reruns(rerun, config) == rerun

\* main.rs:217-230: a call of execute, from run (main.rs:340) or from the
\* frame below (main.rs:275-277): a new frame, with its own flag and channel
E_Enter ==
    /\ \/ pc = "execute"
       \/ pc = "rerun" /\ Reruns(do_rerun, cfg)
    /\ Len(stop_flag) < MaxRuns
    /\ frame' = frame + 1
    /\ pc' = "spawn"
    /\ do_rerun' = InitialRerun(cfg)
    /\ stop_flag' = Append(stop_flag, FALSE)
    /\ chan' = <<>>
    /\ child' = Append(child, "none")
    /\ exit_status' = "none"
    /\ result' = "none"
    /\ err' = Append(err, None)
    /\ stop' = FALSE
    /\ upc' = Append(upc, "none")
    /\ uerr' = None
    /\ sent' = <<>>
    /\ polls' = 0
    /\ polls_before' = polls_before + polls
    /\ cause' = "none"
    /\ at_recv' = "none"
    /\ joined' = Append(joined, FALSE)
    /\ ret' = Append(ret, NotReturned)
    /\ ahead_behind' = <<>>
    /\ urs' = NoUrs
    /\ UNCHANGED runVars

\* main.rs:232: run_script::spawn(..).expect(..)
E_SpawnChild ==
    /\ pc = "spawn"
    /\ \/ /\ child' = Set(child, frame, "running")
          /\ pc' = "spawn_updater"
       \/ /\ pc' = "panic"
          /\ UNCHANGED child
    /\ UNCHANGED <<frame, runVars, polls_before,
                   cycleVars, err, ret, stop_flag, upc, joined,
                   localVars, histVars, chan, exit_status, uerr>>

\* main.rs:234-240: thread::spawn(update_sync)
E_SpawnUpdater ==
    /\ pc = "spawn_updater"
    /\ upc' = Set(upc, frame, "open")
    /\ pc' = "recv"
    /\ UNCHANGED <<frame, runVars, polls_before, cycleVars,
                   err, ret, stop_flag, child, joined,
                   localVars, histVars, chan, exit_status, uerr>>

\* The Sender is moved into update_sync (main.rs:236) and dropped when that
\* thread ends
SenderDropped(u) == u \in {"done", "panic_send"}

\* rx is a local of execute (main.rs:221), dropped when the frame returns
ReceiverDropped(r) == r # NotReturned

\* Receiver::recv is Err when no event is queued and the sender is gone; it
\* waits when no event is queued and the sender lives
RecvFails(queue, sender_dropped) == queue = <<>> /\ sender_dropped

\* Sender::send is Err when the receiver is gone
SendFails(receiver_dropped) == receiver_dropped

\* main.rs:242 and main.rs:255: (err, stop) = rx.recv(), blocking
E_Recv ==
    /\ pc = "recv"
    /\ IF RecvFails(chan, SenderDropped(upc[frame]))
       THEN \* .expect("Failed to receive ..") panics
            /\ pc' = "panic_recv"
            /\ UNCHANGED <<err, stop, chan, at_recv>>
       ELSE /\ chan # <<>>
            /\ err' = Set(err, frame, Head(chan).err)
            /\ stop' = Head(chan).stop
            /\ chan' = Tail(chan)
            /\ at_recv' = exit_status
            /\ pc' = "loop"
    /\ UNCHANGED <<frame, runVars, polls_before, cycleVars,
                   ret, stop_flag, child, upc, joined,
                   do_rerun, result, sent, polls, cause, exit_status, uerr>>

\* Mutant: the receive loop goes on after the terminal event
LoopTestAlways(stopped) == TRUE

\* main.rs:244: while !stop
LoopTest(stopped) == ~stopped

\* main.rs:244-254: the loop test and child.try_wait()
E_TryWait ==
    /\ pc = "loop"
    /\ IF ~LoopTest(stop)
       THEN /\ pc' = "decide"
            /\ UNCHANGED <<stop_flag, child, result>>
       ELSE \/ \* try_wait fails: set the flag and break
               /\ stop_flag' = Set(stop_flag, frame, TRUE)
               /\ pc' = "decide"
               /\ UNCHANGED <<child, result>>
            \/ \* Ok(None): the child is still running
               /\ child[frame] = "running"
               /\ pc' = "recv"
               /\ UNCHANGED <<stop_flag, child, result>>
            \/ \* Ok(Some(status)): the child has exited and is reaped here
               /\ child[frame] = "zombie"
               /\ child' = Set(child, frame, "reaped")
               /\ result' = exit_status
               /\ pc' = "decide"
               /\ UNCHANGED stop_flag
    /\ UNCHANGED <<frame, runVars, polls_before, cycleVars,
                   err, ret, upc, joined, do_rerun, stop,
                   histVars, chan, exit_status, uerr>>

\* Mutant: the write toggles the flag
FlagWriteToggle(flag) == ~flag

\* main.rs:270: *stop_flag.lock().unwrap() = true
FlagWrite(flag) == TRUE

\* main.rs:258-270: the restart decision, then the stop flag is set
E_Decide ==
    /\ pc = "decide"
    /\ do_rerun' = AfterGdep(AfterScript(do_rerun, result, cfg), err[frame], cfg)
    /\ stop_flag' = Set(stop_flag, frame, FlagWrite(stop_flag[frame]))
    /\ pc' = "kill"
    /\ UNCHANGED <<frame, runVars, polls_before, cycleVars,
                   err, ret, child, upc, joined, result, stop,
                   histVars, chan, exit_status, uerr>>

\* Mutant: the kill is left out
KillMissing(st) == st

\* Child::kill: SIGKILL to a child that still runs, Ok(()) without effect on
\* one that has exited; it does not wait for the child
Kill(st) == IF st = "running" THEN "zombie" ELSE st

\* main.rs:272: child.kill().expect(..)
E_Kill ==
    /\ pc = "kill"
    /\ child' = Set(child, frame, Kill(child[frame]))
    /\ exit_status' = IF child[frame] = "running" THEN "signal" ELSE exit_status
    /\ pc' = "join"
    /\ UNCHANGED <<frame, runVars, polls_before,
                   cycleVars, err, ret, stop_flag, upc, joined,
                   localVars, histVars, chan, uerr>>

\* Mutant: join returns at once
JoinableAlways(u) == TRUE

\* JoinHandle::join returns once the thread has ended
Joinable(u) == u = "done"

\* main.rs:273: update_handle.join().expect(..)
E_Join ==
    /\ pc = "join"
    /\ IF upc[frame] = "panic_send"
       THEN \* join returns Err, .expect("Function thread panicked") panics
            /\ pc' = "panic_join"
            /\ UNCHANGED joined
       ELSE /\ Joinable(upc[frame])
            /\ joined' = Set(joined, frame, TRUE)
            /\ pc' = "rerun"
    /\ UNCHANGED <<frame, runVars, polls_before,
                   cycleVars, err, ret, stop_flag, child, upc,
                   localVars, histVars, chan, exit_status, uerr>>

\* Mutant: the frame returns what the restarted run returned
ReturnValueRestarted(own, restarted) ==
    IF restarted # NotReturned THEN restarted ELSE own

\* main.rs:277 and main.rs:280: the value of the recursive call is dropped
\* (`execute(..);`), the frame returns its own err
ReturnValue(own, restarted) == own

\* main.rs:275-280: no restart, or the restarted frame has returned: return err
E_Return ==
    /\ \/ pc = "rerun" /\ ~Reruns(do_rerun, cfg)
       \/ pc = "return"
    /\ ret' = Set(ret, frame,
                  ReturnValue(err[frame],
                              IF frame < Len(ret) THEN ret[frame + 1]
                                                  ELSE NotReturned))
    /\ frame' = frame - 1
    /\ pc' = IF frame > 1 THEN "return" ELSE "run_ret"
    /\ UNCHANGED <<runVars, polls_before,
                   cycleVars, err, stop_flag, child, upc, joined,
                   localVars, histVars, chan, exit_status, uerr>>

----------------------------------------------------------------------------
\* The child process of frame k ends by itself, with exit code 0 or another
ChildExit(k) ==
    /\ child[k] = "running"
    /\ child' = Set(child, k, "zombie")
    /\ \E status \in {"zero", "nonzero"} : exit_status' = status
    /\ UNCHANGED <<pc, frame, runVars, polls_before, cycleVars,
                   err, ret, stop_flag, upc, joined,
                   localVars, histVars, chan, uerr>>

----------------------------------------------------------------------------
\* update_sync (main.rs:38-82), the updater thread of frame k

\* Mutant: a sync_channel of 2 slots, send waits while both are taken
CanSendTwoSlots(queue) == Len(queue) < 2

\* main.rs:221: mpsc::channel() has no capacity, send never waits
CanSend(queue) == TRUE

\* main.rs:45 and main.rs:81: sender.send(..)
Send(ev) ==
    /\ CanSend(chan)
    /\ chan' = Append(chan, ev)
    /\ sent' = Append(sent, ev)

\* Mutant: the last event never carries the error
TerminalEventOk(e) == Event(None, TRUE)

\* Mutant: the last event is sent with the flag false
TerminalEventUnflagged(e) == Event(e, FALSE)

\* main.rs:81: the event that ends update_sync
TerminalEvent(e) == Event(e, TRUE)

\* Mutant: the alive signal is flagged as the last event
HeartbeatFlagged == Event(None, TRUE)

\* main.rs:45: the alive signal
Heartbeat == Event(None, FALSE)

\* main.rs:39-42: Repository::open
U_Open(k) ==
    /\ upc[k] = "open"
    /\ \/ upc' = Set(upc, k, "check") /\ UNCHANGED cause
       \/ upc' = Set(upc, k, "final") /\ cause' = "openfail"
    /\ UNCHANGED <<pc, frame, runVars, polls_before, cycleVars,
                   err, ret, stop_flag, child, joined,
                   localVars, at_recv, sent, polls, chan, exit_status, uerr>>

\* Mutant: the loop test ignores the flag
LoopContinuesAlways(flag) == TRUE

\* main.rs:44: while !*stop_flag.lock().unwrap()
LoopContinues(flag) == ~flag

U_Check(k) ==
    /\ upc[k] = "check"
    /\ IF LoopContinues(stop_flag[k])
       THEN /\ polls_before + polls < MaxPolls
            /\ upc' = Set(upc, k, "heartbeat")
            /\ UNCHANGED cause
       ELSE /\ upc' = Set(upc, k, "final")
            /\ cause' = "stop"
    /\ UNCHANGED <<pc, frame, runVars, polls_before, cycleVars,
                   err, ret, stop_flag, child, joined,
                   localVars, at_recv, sent, polls, chan, exit_status, uerr>>

\* main.rs:45
U_Heartbeat(k) ==
    /\ upc[k] = "heartbeat"
    /\ IF SendFails(ReceiverDropped(ret[k]))
       THEN \* .expect("Failed to send alive signal ..") panics
            /\ upc' = Set(upc, k, "panic_send")
            /\ UNCHANGED <<chan, sent>>
       ELSE /\ Send(Heartbeat)
            /\ upc' = Set(upc, k, "cycle")
    /\ UNCHANGED <<pc, frame, runVars, polls_before, cycleVars,
                   err, ret, stop_flag, child, joined,
                   localVars, at_recv, polls, cause, exit_status, uerr>>

\* main.rs:47-74: repo_update_cycle and the match on its result
U_Cycle(k) ==
    /\ upc[k] = "cycle"
    /\ polls' = polls + 1
    /\ \/ \* res.is_err()
          /\ uerr' = FromGitError("cycle")
          /\ cause' = "giterr"
          /\ upc' = Set(upc, k, "final")
          /\ ahead_behind' = <<>>
          /\ urs' = NoUrs
       \/ \E a \in Counts, b \in Counts :
            /\ ahead_behind' = <<a, b>>
            /\ urs' = Classify(a, b)
            /\ CASE urs'.tag = "Up2Date" ->
                      /\ upc' = Set(upc, k, "check")
                      /\ UNCHANGED <<uerr, cause>>
                 [] urs'.tag = "Ahead" ->
                      /\ uerr' = UpdateErrorRepoAhead(urs'.a)
                      /\ cause' = "ahead"
                      /\ upc' = Set(upc, k, "final")
                 [] urs'.tag = "Behind" ->
                      /\ upc' = Set(upc, k, "update")
                      /\ UNCHANGED <<uerr, cause>>
                 [] urs'.tag = "AheadBehind" ->
                      /\ uerr' = UpdateErrorAheadBehind(urs'.a, urs'.b)
                      /\ cause' = "aheadbehind"
                      /\ upc' = Set(upc, k, "final")
    /\ UNCHANGED <<pc, frame, runVars, polls_before,
                   err, ret, stop_flag, child, joined,
                   localVars, at_recv, sent, chan, exit_status>>

\* main.rs:60-68: update_repo on a Behind classification; the arm
\* Behind(_) binds nothing of urs
U_Update(k) ==
    /\ upc[k] = "update"
    /\ ahead_behind' = <<>>
    /\ urs' = NoUrs
    /\ \/ /\ uerr' = UpdateFailed("update")
          /\ cause' = "updatefailed"
       \/ /\ cause' = "updated"
          /\ UNCHANGED uerr
    /\ upc' = Set(upc, k, "final")
    /\ UNCHANGED <<pc, frame, runVars, polls_before,
                   err, ret, stop_flag, child, joined,
                   localVars, at_recv, sent, polls, chan, exit_status>>

\* main.rs:78-81: the terminal event takes err with it, then the thread ends
U_Final(k) ==
    /\ upc[k] = "final"
    /\ IF SendFails(ReceiverDropped(ret[k]))
       THEN \* .expect("Failed to send stop signal ..") panics
            /\ upc' = Set(upc, k, "panic_send")
            /\ UNCHANGED <<chan, sent>>
       ELSE /\ Send(TerminalEvent(uerr))
            /\ upc' = Set(upc, k, "done")
    /\ uerr' = None
    /\ UNCHANGED <<pc, frame, runVars, polls_before, cycleVars,
                   err, ret, stop_flag, child, joined,
                   localVars, at_recv, polls, cause, exit_status>>

----------------------------------------------------------------------------
Frames == 1..Len(stop_flag)

Supervisor ==
    \/ E_Enter \/ E_SpawnChild \/ E_SpawnUpdater \/ E_Recv \/ E_TryWait
    \/ E_Decide \/ E_Kill \/ E_Join \/ E_Return

Updater(k) ==
    \/ U_Open(k) \/ U_Check(k) \/ U_Heartbeat(k) \/ U_Cycle(k)
    \/ U_Update(k) \/ U_Final(k)

\* execute, called with any Config
Next ==
    \/ Supervisor
    \/ R_Return
    \/ M_Exit
    \/ \E k \in Frames : Updater(k)
    \/ \E k \in Frames : ChildExit(k)

Spec == InitExecute /\ [][Next]_vars

\* The main thread and the updater thread keep being scheduled; a fetch, a
\* classification or a merge that is in flight returns. (At most one updater
\* has a step to take: the earlier ones were joined, main.rs:273.)
Fairness ==
    /\ WF_vars(Supervisor)
    /\ WF_vars(\E k \in Frames : Updater(k))

\* execute called with a Config of a final script (re_run false): one run of
\* the supervisor and its updater, from the state every run starts in
InitFinal == InitExecute /\ ~cfg.re_run

SpecFair == InitFinal /\ [][Next]_vars /\ Fairness

\* run, with the call of execute as one step
NextRun == R_Resolve \/ R_Branch \/ R_Execute \/ R_Return \/ M_Exit

SpecRun == InitRun /\ [][NextRun]_vars

----------------------------------------------------------------------------
\* The model's own consistency

\* The frames below the newest one are waiting in the call at main.rs:277:
\* what is kept for the newest frame only is never touched on their behalf
OlderFramesQuiet ==
    \A k \in Frames : k < Len(stop_flag) =>
        upc[k] = "done" /\ child[k] \in {"zombie", "reaped"} /\ joined[k]

\* R_Execute returns whatever a call of execute can return
ExecuteReturnsCovered ==
    \A k \in Frames : ret[k] \in ExecuteResults \cup {NotReturned}

----------------------------------------------------------------------------
\* Claims

Newest == Len(stop_flag)
Returned(k) == ret[k] # NotReturned
Spawns == Cardinality({k \in Frames : child[k] # "none"})
Terminals == {i \in 1..Len(sent) : sent[i].stop}

\* C1: whenever a call of execute has returned, no child process spawned by it
\* or by the runs it restarted is alive, and every updater thread of those runs
\* has terminated.
C1_NoneAliveAfterReturn ==
    \A k \in Frames : Returned(k) =>
        \A j \in k..Newest : child[j] # "running" /\ upc[j] = "done"

\* C1 witness: execute has returned to run after a restart, and the child of
\* the last run was still running when it was killed
C1_Witness ==
    /\ pc = "run_ret"
    /\ Newest = 2
    /\ exit_status = "signal"

\* C2 as claimed, for a script that had already exited non-zero when the
\* supervisor received its last event of the run: with exit_on_script_error,
\* no further run is started
C2_Claim ==
    [][(cfg.exit_on_script_error /\ at_recv = "nonzero")
         => Len(child') = Len(child)]_vars

\* C3 as claimed, for a run whose receive loop ended on the child's exit: with
\* exit_on_gdep_error, once the updater of the run has sent a terminal event
\* that carries an error, no further run is started
C3_Claim ==
    [][(/\ cfg.exit_on_gdep_error
        /\ result # "none"
        /\ \E i \in Terminals : sent[i].err # None)
         => Len(child') = Len(child)]_vars

\* C4: if re_run is false, execute never spawns a second child, and when it has
\* returned to run it has spawned exactly one.
C4_OneSpawn ==
    ~cfg.re_run =>
        /\ Spawns <= 1
        /\ pc \in {"run_ret", "exit", "exited"} => Spawns = 1

\* C4 witness: re_run is false and execute has returned after a failed script
\* and a failed update
C4_Witness ==
    /\ ~cfg.re_run
    /\ pc = "run_ret"
    /\ result = "nonzero"
    /\ cause = "updatefailed"

\* C5: the updater of a run sends at most one terminal event, nothing after it,
\* and has sent exactly one when it has ended.
C5_OneTerminalLast ==
    /\ \A i \in Terminals : i = Len(sent)
    /\ Newest >= 1 /\ upc[Newest] = "done" => Cardinality(Terminals) = 1

\* C5 witness: an updater has ended after two heartbeats and its terminal event
C5_Witness ==
    /\ Newest >= 1
    /\ upc[Newest] = "done"
    /\ Len(sent) = 3

\* C6: an updater that finds the stop flag set at the loop test leaves the loop
\* with err = None, sends no heartbeat and starts no fetch, and its next and
\* last step sends the terminal event (None, true).
C6_StopSeen ==
    [][\A k \in Frames :
         /\ (upc[k] = "check" /\ stop_flag[k] /\ upc'[k] # "check") =>
               /\ upc'[k] = "final"
               /\ uerr' = None
               /\ sent' = sent
               /\ polls' = polls
         /\ (upc[k] = "final" /\ cause = "stop" /\ upc'[k] # "final") =>
               /\ upc'[k] = "done"
               /\ sent' = Append(sent, Event(None, TRUE))
               /\ polls' = polls]_vars

\* C6 witness: an updater has polled, then seen the flag and ended
C6_Witness ==
    /\ Newest >= 1
    /\ upc[Newest] = "done"
    /\ cause = "stop"
    /\ polls >= 1

\* C7 as claimed: when a call of execute has returned, the child of each of its
\* runs has been reaped and the updater of each has been joined
C7_Claim ==
    \A k \in Frames : Returned(k) =>
        \A j \in k..Newest : child[j] = "reaped" /\ joined[j]

\* C8 as claimed: with restart_after_update, when the supervisor has received
\* the terminal Ok of a successful update, the run is followed by a new run
C8_Claim ==
    [][(/\ cfg.restart_after_update
        /\ pc = "rerun"
        /\ cause = "updated" /\ stop /\ err[frame] = None)
         => Len(child') = Len(child) + 1]_vars

\* C9 as claimed: with a --branch override, get_default_branch is not called
\* and branch inference cannot fail the run; the override is the branch handed
\* to execute
C9_Claim ==
    branch_arg # "none" =>
        /\ infer_calls = 0
        /\ run_result # BranchInferFailed
        /\ pc \in {"execute", "run_ret"} => branch = branch_arg

\* C10: the stop flag of a run starts false, is never reset once set, and is
\* written by the supervisor only (at main.rs:247 and main.rs:270): no step of
\* an updater changes it.
C10_StopFlagOneShot ==
    [][/\ \A k \in Frames : stop_flag[k] => stop_flag'[k]
       /\ Len(stop_flag') > Len(stop_flag) => ~stop_flag'[Len(stop_flag')]
       /\ (\E k \in Frames : stop_flag'[k] # stop_flag[k]) =>
             /\ pc \in {"loop", "decide"}
             /\ pc' # pc
             /\ upc' = upc]_vars

\* C10 witness: the flag of the first run stays set while the restarted run has
\* its own flag, set in turn and seen by its updater
C10_Witness ==
    /\ Newest = 2
    /\ stop_flag[1] /\ stop_flag[2]
    /\ cause = "stop"

\* C11 as claimed: a ConfigError returned by load_cfg ends run with that error
\* as the payload of ConfigLoadError, on both paths of main.rs:328-336, and
\* before any child is spawned
C11_Claim ==
    load_err # "none" =>
        /\ run_result = ConfigLoadError(load_err)
        /\ child = <<>>

\* C12 as claimed: the process ends with exit code 0 exactly when run
\* returned Ok
C12_Claim ==
    pc = "exited" => (exit_code = 0 <=> run_result = RunOk)

\* C13: the classification repo_update_cycle returns for the counts (a, b) is
\* Up2Date iff a = 0 and b = 0, Ahead(a) iff a > 0 and b = 0, Behind(b) iff
\* a = 0 and b > 0, AheadBehind(a, b) iff a > 0 and b > 0; an AheadBehind
\* never carries a zero
C13_Classification ==
    urs # NoUrs =>
        LET a == ahead_behind[1]
            b == ahead_behind[2]
        IN  /\ (urs = Up2Date) <=> (a = 0 /\ b = 0)
            /\ (urs = Ahead(a)) <=> (a > 0 /\ b = 0)
            /\ (urs = Behind(b)) <=> (a = 0 /\ b > 0)
            /\ (urs = AheadBehind(a, b)) <=> (a > 0 /\ b > 0)
            /\ urs.tag \in {"Up2Date", "Ahead", "Behind", "AheadBehind"}
            /\ urs.tag = "AheadBehind" => (urs.a > 0 /\ urs.b > 0)

\* the counts (1, 1) were classified, and the updater is about to report them
C13_Witness ==
    /\ Newest >= 1
    /\ upc[Newest] = "final"
    /\ ahead_behind = <<MaxCount, MaxCount>>
    /\ urs.tag = "AheadBehind"

\* C14 as claimed, for a terminal event: a child that had exited when the
\* event was received has its exit status in result when the loop is left
C14_Claim ==
    (pc = "decide" /\ stop /\ at_recv \in {"zero", "nonzero"}) =>
        result = at_recv

\* C15: the terminal event of the updater carries the outcome of the iteration
\* that ended its loop: GitError after a failing fetch/classify,
\* UpdateErrorRepoAhead(a) after Ahead(a), UpdateErrorAheadBehind(a, b) after
\* AheadBehind(a, b), UpdateFailed after Behind and a failing update, Ok after
\* Behind and a successful update; an Up2Date iteration does not end the loop,
\* it goes back to the test of the stop flag.
C15_TerminalOutcome ==
    /\ \A k \in Frames : upc[k] = "update" => (k = Newest /\ urs.tag = "Behind")
    /\ urs.tag = "Behind" => (upc[Newest] = "update" /\ Terminals = {})
    /\ (urs = Up2Date /\ upc[Newest] \in {"final", "done"}) => cause = "stop"
    /\ \A i \in Terminals :
         LET e == sent[i].err IN
         /\ cause = "giterr" => (urs = NoUrs /\ e.kind = "GitError")
         /\ cause = "ahead" =>
              /\ urs.tag = "Ahead"
              /\ e.kind = "UpdateErrorRepoAhead"
              /\ e.a = ahead_behind[1]
         /\ cause = "aheadbehind" =>
              /\ urs.tag = "AheadBehind"
              /\ e.kind = "UpdateErrorAheadBehind"
              /\ e.a = ahead_behind[1]
              /\ e.b = ahead_behind[2]
         /\ cause = "updatefailed" => (urs = NoUrs /\ e.kind = "UpdateFailed")
         /\ cause = "updated" => (urs = NoUrs /\ e = None)
         /\ cause \in {"giterr", "ahead", "aheadbehind", "updatefailed",
                       "updated", "stop", "openfail"}

\* an Up2Date iteration, then a Behind iteration whose update failed, reported
C15_Witness ==
    /\ Newest >= 1
    /\ upc[Newest] = "done"
    /\ cause = "updatefailed"
    /\ polls = 2
    /\ sent[Len(sent)].err = UpdateFailed("update")

\* C16 as claimed: a terminal event that carries no error was sent either
\* because the updater saw the stop flag at its loop test or after a Behind
\* classification whose update succeeded
C16_Claim ==
    \A i \in Terminals :
        sent[i].err = None => cause \in {"stop", "updated"}

\* C17: once the stop flag of a run is set, its updater sends the terminal
\* event and ends, the join of the supervisor completes and execute is at its
\* restart decision, whatever the updater was doing when the flag was set
C17_StopLeadsToJoin ==
    (\E k \in Frames : stop_flag[k] /\ ~joined[k]) ~>
        (\A k \in Frames : stop_flag[k] => (upc[k] = "done" /\ joined[k]))

\* the flag was set while a fetch was in flight; the updater ended at its
\* next loop test and was joined
C17_Witness ==
    /\ Newest >= 1
    /\ joined[Newest]
    /\ pc = "rerun"
    /\ cause = "stop"
    /\ polls >= 1
    /\ result # "none"

\* C18: at any time at most one child process is alive and at most one
\* updater thread is running; when a restarted run exists, the child of every
\* earlier run has been killed or was seen to have exited and the updater of
\* every earlier run has been joined; a run spawns one child, no run is
\* without one once it is past its spawn.
C18_OneAtATime ==
    /\ Cardinality({k \in Frames : child[k] = "running"}) <= 1
    /\ Cardinality({k \in Frames : upc[k] \notin {"none", "done"}}) <= 1
    /\ \A k \in Frames : k < Newest =>
         /\ child[k] \in {"zombie", "reaped"}
         /\ upc[k] = "done"
         /\ joined[k]
    /\ Spawns <= Newest
    /\ pc \notin {"execute", "spawn", "panic"} => Spawns = Newest

\* the restarted run has its child and its updater at work
C18_Witness ==
    /\ Newest = 2
    /\ child[2] = "running"
    /\ upc[2] = "cycle"
    /\ child[1] # "running"
    /\ joined[1]

Heartbeats == Cardinality({i \in 1..Len(sent) : ~sent[i].stop})

\* the fetch/classify attempts begun: those that returned and the one in flight
PollsStarted ==
    polls + (IF Newest >= 1 /\ upc[Newest] = "cycle" THEN 1 ELSE 0)

\* C19: the updater sends one heartbeat (Ok, false) before every
\* fetch/classify attempt and none otherwise: the number of heartbeats sent
\* equals the number of attempts begun, and the heartbeats are exactly the
\* events before the terminal one.
C19_HeartbeatPerPoll ==
    /\ Heartbeats = PollsStarted
    /\ \A i \in 1..Len(sent) : ~sent[i].stop => sent[i] = Event(None, FALSE)

\* the second attempt is in flight, its heartbeat was sent
C19_Witness ==
    /\ Newest >= 1
    /\ upc[Newest] = "cycle"
    /\ polls = 1
    /\ Heartbeats = 2

\* C20 as claimed: the events sent and not yet received are never more than 2
C20_Claim == Len(chan) <= 2

\* C20, amended: the events sent and not yet received are bounded by the
\* events the updater has sent, one per attempt begun and the terminal one,
\* not by 2; the updater that is at a send can always take it, while the
\* supervisor waits in join and at any other time.
C20_SendNeverBlocks ==
    /\ Len(chan) <= Len(sent)
    /\ Len(sent) <= PollsStarted + 1
    /\ \A k \in Frames :
         /\ upc[k] = "heartbeat" => ENABLED U_Heartbeat(k)
         /\ upc[k] = "final" => ENABLED U_Final(k)

\* two heartbeats and the terminal event were sent before the supervisor
\* received the first of them
C20_Witness ==
    /\ Newest >= 1
    /\ upc[Newest] = "done"
    /\ pc = "recv"
    /\ Len(chan) = 3

\* C21: no operation on the channel fails.  The supervisor is never at a recv
\* after it received the terminal event, nor at a recv that finds the channel
\* empty and the sender dropped; an updater that has ended has sent its
\* terminal event; the receiver of a run is dropped only after the join of
\* that run, so no updater is at a send with the receiver gone; none of the
\* expect calls on the channel, nor the one on join, has panicked.
C21_NoChannelFailure ==
    /\ pc \notin {"panic_recv", "panic_join"}
    /\ \A k \in Frames : upc[k] # "panic_send"
    /\ pc = "recv" =>
         /\ ~stop
         /\ ~RecvFails(chan, SenderDropped(upc[frame]))
    /\ (Newest >= 1 /\ SenderDropped(upc[Newest])) => Terminals # {}
    /\ \A k \in Frames :
         /\ ReceiverDropped(ret[k]) => joined[k]
         /\ upc[k] \in {"heartbeat", "final"} =>
              ~SendFails(ReceiverDropped(ret[k]))

\* the supervisor is at a recv after the updater has ended and dropped the
\* sender: the recv succeeds because the events sent are still queued
C21_Witness ==
    /\ pc = "recv"
    /\ Newest >= 1
    /\ SenderDropped(upc[frame])
    /\ Len(chan) >= 2
    /\ Len(sent) > Len(chan)

\* C22: the err of a frame is what its last recv gave it: it changes at a
\* recv of that frame only.  When the receive loop of a run ends, err is the
\* error of the terminal event if one was received and None otherwise, in
\* particular None when the child was seen to have exited.  A frame returns
\* that err, whatever the run it restarted has returned.
C22_ReturnsOwnOutcome ==
    [][/\ \A k \in Frames :
            /\ err'[k] # err[k] => (k = frame /\ pc = "recv" /\ pc' = "loop")
            /\ ret'[k] # ret[k] =>
                 (k = frame /\ ret[k] = NotReturned /\ ret'[k] = err[k])
       /\ (pc = "loop" /\ pc' = "decide") =>
            /\ err'[frame] = (IF stop THEN sent[Len(sent)].err ELSE None)
            /\ result' # "none" => err'[frame] = None
      ]_vars

\* the first run ended on the exit of its child and returned None; the run it
\* restarted returned the error of its updater
C22_Witness ==
    /\ pc = "run_ret"
    /\ Newest = 2
    /\ ret[1] = None
    /\ ret[2].kind = "UpdateErrorRepoAhead"

====
